---- MODULE Spec2Model ----
(***************************************************************************)
(* Model of the portfolio-manager backend: the GitHub repository link      *)
(* service (services/github.py), the JWT codec (core/security.py) and the  *)
(* authentication service and endpoints (services/auth.py,                 *)
(* api/endpoints/auth.py), over the tables declared in app/models.         *)
(*                                                                         *)
(* Three specifications share the variables:                               *)
(*   Spec       the repository link service over github_repositories       *)
(*   TokenSpec  issue / verify of bearer tokens                            *)
(*   AuthSpec   the authentication endpoints over users, auth_accounts and *)
(*              sessions                                                   *)
(***************************************************************************)
EXTENDS Integers, Sequences, FiniteSets, TLC

VARIABLES
    repos,       \* rows of github_repositories
    nextRepoId,  \* next value of the github_repositories.id sequence
    users,       \* rows of users
    accounts,    \* rows of auth_accounts
    sessions,    \* rows of sessions
    issued,      \* tokens handed out so far, with the instant and ttl of issue
    now,         \* the clock, in seconds (datetime.utcnow())
    syncing,     \* the sync_repository calls in progress, one per store session
    res          \* the last call and what it answered

vars == <<repos, nextRepoId, users, accounts, sessions, issued, now, syncing, res>>

(***************************************************************************)
(* Bounds                                                                  *)
(***************************************************************************)
NumProjects == 2
MaxRepoId == 2
MaxTime == 1

\* An optional column: <<>> is NULL / None, <<v>> is the value v.
Null == <<>>
Some(v) == <<v>>

\* The store sessions that can run sync_repository side by side, and the
\* state in which none of them has a call in progress.
DbSessions == {"manual", "scheduled"}
NoSyncing == [s \in DbSessions |-> [pc |-> "idle"]]

(***************************************************************************)
(* Repository URLs.  A URL is its host and its path; a path segment is the *)
(* sequence of its dot-separated parts ("repo.git" is <<"repo", "git">>).  *)
(* The scheme is https throughout.                                         *)
(***************************************************************************)
UrlRepo    == [host |-> "github.com", path |-> << <<"alice">>, <<"repo">> >>]
UrlTool    == [host |-> "github.com", path |-> << <<"bob">>, <<"tool">> >>]
UrlRepoGit == [host |-> "github.com", path |-> << <<"alice">>, <<"repo", "git">> >>]
UrlOwner   == [host |-> "github.com", path |-> << <<"alice">> >>]
UrlGitlab  == [host |-> "gitlab.com", path |-> << <<"alice">>, <<"repo">> >>]
UrlDotted  == [host |-> "github.com", path |-> << <<"alice">>, <<"next", "js">> >>]

Urls == {UrlRepo, UrlTool, UrlRepoGit, UrlOwner, UrlGitlab}

\* github_url.startswith('https://github.com/')
StartsWithGithub(u) == u.host = "github.com"

\* GithubRepositoryBase.validate_github_url:
\* ^https://github\.com/[\w.-]+/[\w.-]+(?:\.git)?$
validate_github_url(u) == StartsWithGithub(u) /\ Len(u.path) = 2

\* GithubRepositoryUpdate.validate_github_url_if_provided: the prefix only
validate_github_url_if_provided(u) == StartsWithGithub(u)

\* _extract_repo_name: re.search(r'github\.com/([^/]+/[^/\.]+)', url);
\* the owner is the whole first segment, the repository the part of the
\* second segment before its first dot; "" (here <<>>) when nothing matches.
\* A name is the pair of its owner and its repository, each a sequence of
\* dot-separated parts.
_extract_repo_name(u) ==
    IF StartsWithGithub(u) /\ Len(u.path) >= 2
    THEN <<u.path[1], <<u.path[2][1]>> >>
    ELSE <<>>

\* repository_name as supplied by the caller: absent or explicit
NameInputs == {Null, Some(<< <<"carol">>, <<"lib">> >>)}

(***************************************************************************)
(* The github_repositories table                                           *)
(***************************************************************************)
Projects   == 1..NumProjects          \* rows of projects
ProjectIds == 1..(NumProjects + 1)    \* ids a caller may pass; the last has no row

\* A stored row with github_url = u other than row selfId:
\* the lookups of create_github_repository and update_repository, and the
\* unique constraint of the github_url column.
UrlConflictNone(rs, u, selfId) == FALSE
UrlConflict(rs, u, selfId) ==
    \E r \in rs : r.github_url = Some(u) /\ r.id # selfId

\* A stored row of project p other than row selfId: unique=True on project_id.
ProjectConflictNone(rs, p, selfId) == FALSE
ProjectConflict(rs, p, selfId) ==
    \E r \in rs : r.project_id = p /\ r.id # selfId

\* What the database refuses at commit: NOT NULL on github_url and
\* sync_enabled, the two unique constraints, the foreign key to projects.
IntegrityError(rs, row) ==
    \/ row.github_url = Null
    \/ row.sync_enabled = Null
    \/ UrlConflict(rs, row.github_url[1], row.id)
    \/ ProjectConflict(rs, row.project_id, row.id)
    \/ row.project_id \notin Projects

get_by_id(rs, id) == {r \in rs : r.id = id}
get_by_project_id(rs, p) == {r \in rs : r.project_id = p}

(***************************************************************************)
(* GithubRepositoryService                                                 *)
(***************************************************************************)
\* The row GithubRepository(project_id=..., github_url=..., ...) of
\* create_github_repository as the insert stores it, with the column defaults
GithubRepository(id, p, u, nm, se, at) ==
    [id |-> id,
     project_id |-> p,
     github_url |-> Some(u),
     repository_name |-> IF nm # Null /\ nm[1] # <<>>
                         THEN nm[1] ELSE _extract_repo_name(u),
     sync_enabled |-> Some(se),
     stars |-> 0, forks |-> 0, watchers |-> 0,   \* column defaults
     language |-> Null, license |-> Null,
     is_private |-> FALSE, is_fork |-> FALSE,
     last_synced_at |-> Some(at),   \* column default=datetime.utcnow
     sync_error_message |-> Null,
     updated_at |-> at]

\* create_github_repository(project_id, data), data validated by
\* GithubRepositoryCreate
create_github_repository(p, u, nm, se) ==
    LET row == GithubRepository(nextRepoId, p, u, nm, se, now)
        call == [op |-> "link", project_id |-> p, url |-> u, name |-> nm]
    IN
    /\ nextRepoId <= MaxRepoId
    /\ IF ~validate_github_url(u)
       THEN /\ res' = call @@ [outcome |-> "ValidationError", id |-> 0]
            /\ UNCHANGED <<repos, nextRepoId>>
       ELSE IF ~StartsWithGithub(u)
       THEN /\ res' = call @@ [outcome |-> "ValidationException", id |-> 0]
            /\ UNCHANGED <<repos, nextRepoId>>
       ELSE IF UrlConflict(repos, u, 0)
       THEN /\ res' = call @@ [outcome |-> "DuplicateException", id |-> 0]
            /\ UNCHANGED <<repos, nextRepoId>>
       ELSE IF IntegrityError(repos, row)
       THEN \* rollback; the sequence value is consumed all the same
            /\ res' = call @@ [outcome |-> "DuplicateException", id |-> 0]
            /\ nextRepoId' = nextRepoId + 1
            /\ UNCHANGED repos
       ELSE /\ repos' = repos \cup {row}
            /\ nextRepoId' = nextRepoId + 1
            /\ res' = call @@ [outcome |-> "created", id |-> row.id]
    /\ UNCHANGED <<users, accounts, sessions, issued, now, syncing>>

\* A patch (model_dump(exclude_unset=True)): each field is unset, or set to
\* None (Null) or to a value.
NotSet == [set |-> FALSE, val |-> Null]
SetTo(v) == [set |-> TRUE, val |-> v]
Patches ==
    [github_url : {NotSet, SetTo(Null)} \cup {SetTo(Some(u)) : u \in Urls},
     sync_enabled : {NotSet, SetTo(Null), SetTo(Some(TRUE)), SetTo(Some(FALSE))}]

\* update_repository(repository_id, data), data validated by
\* GithubRepositoryUpdate; fields are visited in declaration order.
\* The variant that takes a new url for a new repository and resets the
\* cached stars and the sync timestamp comes first.
update_repository_ResetStats(id, patch) ==
    LET call == [op |-> "update", id |-> id, url |-> patch.github_url.val]
        found == get_by_id(repos, id)
        old == CHOOSE r \in found : TRUE
        urlGiven == patch.github_url.set /\ patch.github_url.val # Null
        u == patch.github_url.val[1]
        afterUrl ==
            IF ~patch.github_url.set THEN old
            ELSE IF urlGiven
                 THEN [old EXCEPT !.github_url = Some(u),
                                  !.repository_name = _extract_repo_name(u),
                                  !.stars = 0, !.last_synced_at = Null]
                 ELSE [old EXCEPT !.github_url = Null]
        afterSync ==
            IF ~patch.sync_enabled.set THEN afterUrl
            ELSE [afterUrl EXCEPT !.sync_enabled = patch.sync_enabled.val]
        new == [afterSync EXCEPT !.updated_at = now]
    IN
    /\ IF urlGiven /\ ~validate_github_url_if_provided(u)
       THEN /\ res' = call @@ [outcome |-> "ValidationError"]
            /\ UNCHANGED repos
       ELSE IF found = {}
       THEN /\ res' = call @@ [outcome |-> "NotFoundException"]
            /\ UNCHANGED repos
       ELSE IF urlGiven /\ ~StartsWithGithub(u)
       THEN /\ res' = call @@ [outcome |-> "ValidationException"]
            /\ UNCHANGED repos
       ELSE IF urlGiven /\ UrlConflict(repos, u, id)
       THEN /\ res' = call @@ [outcome |-> "DuplicateException"]
            /\ UNCHANGED repos
       ELSE IF IntegrityError(repos, new)
       THEN /\ res' = call @@ [outcome |-> "DuplicateException"]
            /\ UNCHANGED repos
       ELSE /\ repos' = (repos \ {old}) \cup {new}
            /\ res' = call @@ [outcome |-> "updated"]
    /\ UNCHANGED <<nextRepoId, users, accounts, sessions, issued, now, syncing>>
update_repository(id, patch) ==
    LET call == [op |-> "update", id |-> id, url |-> patch.github_url.val]
        found == get_by_id(repos, id)
        old == CHOOSE r \in found : TRUE
        urlGiven == patch.github_url.set /\ patch.github_url.val # Null
        u == patch.github_url.val[1]
        afterUrl ==
            IF ~patch.github_url.set THEN old
            ELSE IF urlGiven
                 THEN [old EXCEPT !.github_url = Some(u),
                                  !.repository_name = _extract_repo_name(u)]
                 ELSE [old EXCEPT !.github_url = Null]
        afterSync ==
            IF ~patch.sync_enabled.set THEN afterUrl
            ELSE [afterUrl EXCEPT !.sync_enabled = patch.sync_enabled.val]
        new == [afterSync EXCEPT !.updated_at = now]
    IN
    /\ IF urlGiven /\ ~validate_github_url_if_provided(u)
       THEN /\ res' = call @@ [outcome |-> "ValidationError"]
            /\ UNCHANGED repos
       ELSE IF found = {}
       THEN /\ res' = call @@ [outcome |-> "NotFoundException"]
            /\ UNCHANGED repos
       ELSE IF urlGiven /\ ~StartsWithGithub(u)
       THEN /\ res' = call @@ [outcome |-> "ValidationException"]
            /\ UNCHANGED repos
       ELSE IF urlGiven /\ UrlConflict(repos, u, id)
       THEN /\ res' = call @@ [outcome |-> "DuplicateException"]
            /\ UNCHANGED repos
       ELSE IF IntegrityError(repos, new)
       THEN /\ res' = call @@ [outcome |-> "DuplicateException"]
            /\ UNCHANGED repos
       ELSE /\ repos' = (repos \ {old}) \cup {new}
            /\ res' = call @@ [outcome |-> "updated"]
    /\ UNCHANGED <<nextRepoId, users, accounts, sessions, issued, now, syncing>>

\* delete_repository(repository_id).  The variant that deletes every link
\* comes first.
delete_repository_All(id) ==
    LET call == [op |-> "unlink", id |-> id]
        found == get_by_id(repos, id)
    IN
    /\ IF found = {}
       THEN /\ res' = call @@ [outcome |-> "NotFoundException"]
            /\ UNCHANGED repos
       ELSE /\ repos' = {}
            /\ res' = call @@ [outcome |-> "deleted"]
    /\ UNCHANGED <<nextRepoId, users, accounts, sessions, issued, now, syncing>>
delete_repository(id) ==
    LET call == [op |-> "unlink", id |-> id]
        found == get_by_id(repos, id)
    IN
    /\ IF found = {}
       THEN /\ res' = call @@ [outcome |-> "NotFoundException"]
            /\ UNCHANGED repos
       ELSE /\ repos' = repos \ found
            /\ res' = call @@ [outcome |-> "deleted"]
    /\ UNCHANGED <<nextRepoId, users, accounts, sessions, issued, now, syncing>>

\* The clock advances between calls.
Tick ==
    /\ now < MaxTime
    /\ now' = now + 1
    /\ res' = [op |-> "tick"]
    /\ UNCHANGED <<repos, nextRepoId, users, accounts, sessions, issued, syncing>>

(***************************************************************************)
(* Claims on the repository link service                                   *)
(***************************************************************************)
UrlsUnique ==
    \A r1, r2 \in repos : r1.github_url = r2.github_url => r1 = r2

LinkOnTakenUrl ==
    (res'.op = "link" /\ \E r \in repos : r.github_url = Some(res'.url))
    => /\ res'.outcome # "created"
       /\ repos' = repos
       /\ validate_github_url(res'.url) => res'.outcome = "DuplicateException"

\* C1: in every state reached by link, update and unlink calls no two links
\* have the same URL; a link call whose URL is already stored, for the same
\* or for another project, fails with DuplicateException (a URL the create
\* schema rejects is refused as invalid before the lookup) and adds no link.
C1_UrlLinkedOnce == []UrlsUnique /\ [][LinkOnTakenUrl]_vars

\* C1 witness: a link call was refused as a duplicate of a URL stored for a
\* different project.
C1_Witness ==
    /\ res.op = "link"
    /\ res.outcome = "DuplicateException"
    /\ \E r \in repos : r.github_url = Some(res.url) /\ r.project_id # res.project_id
    /\ get_by_project_id(repos, res.project_id) = {}
    /\ res.project_id \in Projects

ProjectsUnique ==
    \A r1, r2 \in repos : r1.project_id = r2.project_id => r1 = r2

LinkOnLinkedProject ==
    (/\ res'.op = "link"
     /\ validate_github_url(res'.url)
     /\ \E r \in repos : r.project_id = res'.project_id)
    => /\ res'.outcome = "DuplicateException"
       /\ repos' = repos

\* C2: every project has at most one link in every reachable state; a link
\* call with a repository URL on a project that already has a link fails
\* with DuplicateException, also when the URL is stored nowhere, and leaves
\* the table unchanged, so a second link succeeds only once the first is gone.
C2_OneLinkPerProject == []ProjectsUnique /\ [][LinkOnLinkedProject]_vars

\* C2 witness: a link call with a URL stored nowhere was refused because the
\* project already had a link.
C2_Witness ==
    /\ res.op = "link"
    /\ res.outcome = "DuplicateException"
    /\ validate_github_url(res.url)
    /\ ~\E r \in repos : r.github_url = Some(res.url)
    /\ get_by_project_id(repos, res.project_id) # {}


Init ==
    /\ repos = {}
    /\ nextRepoId = 1
    /\ users = {}
    /\ accounts = {}
    /\ sessions = {}
    /\ issued = {}
    /\ now = 0
    /\ syncing = NoSyncing
    /\ res = [op |-> "init"]

Link == \E p \in ProjectIds, u \in Urls, nm \in NameInputs, se \in BOOLEAN :
            create_github_repository(p, u, nm, se)
Update == \E id \in 1..MaxRepoId, patch \in Patches : update_repository(id, patch)
Unlink == \E id \in 1..MaxRepoId : delete_repository(id)

Next == Link \/ Update \/ Unlink \/ Tick

Spec == Init /\ [][Next]_vars

(***************************************************************************)
(* The token codec (core/security.py)                                      *)
(***************************************************************************)
ACCESS_TOKEN_EXPIRE_MINUTES == 30
REFRESH_TOKEN_EXPIRE_DAYS == 7

\* str(n) and int(s) on the subjects in use; int raises ValueError (Null)
\* on a string that is not a number.
DigitStr == <<"0", "1", "2", "3", "4", "5", "6", "7", "8", "9">>
py_str(n) == DigitStr[n + 1]
py_int(s) == IF \E n \in 0..9 : py_str(n) = s
             THEN Some(CHOOSE n \in 0..9 : py_str(n) = s)
             ELSE Null

\* A compact signed token is its claims and whether the signature verifies
\* under SECRET_KEY; HS256 is deterministic, so equal claims give one token.
Token(sub, exp, type) == [sub |-> sub, exp |-> exp, type |-> type, sig |-> "good"]
Forged(t) == [t EXCEPT !.sig = "bad"]
Malformed == [sub |-> "", exp |-> 0, type |-> "", sig |-> "malformed"]

\* "if expires_delta:" -- None and timedelta(0) are both falsy
Truthy(delta) == delta # Null /\ delta[1] # 0

create_access_token(subject, expires_delta, at) ==
    LET expire == IF Truthy(expires_delta)
                  THEN at + expires_delta[1]
                  ELSE at + ACCESS_TOKEN_EXPIRE_MINUTES * 60
    IN Token(py_str(subject), expire, "access")

create_refresh_token(subject, expires_delta, at) ==
    LET expire == IF Truthy(expires_delta)
                  THEN at + expires_delta[1]
                  ELSE at + REFRESH_TOKEN_EXPIRE_DAYS * 24 * 60 * 60
    IN Token(py_str(subject), expire, "refresh")

\* jose jwt.decode: signature first, then exp (expired when exp < now)
jwt_decode_NoExp(t, at) ==
    IF t.sig # "good" THEN "JWTError" ELSE "claims"
jwt_decode(t, at) ==
    IF t.sig # "good" THEN "JWTError"
    ELSE IF t.exp < at THEN "ExpiredSignatureError"
    ELSE "claims"

Returned(sub) == [raised |-> FALSE, status |-> 200, detail |-> "", sub |-> sub]
HTTPException(status, detail) ==
    [raised |-> TRUE, status |-> status, detail |-> detail, sub |-> ""]

\* verify_token(token, token_type): ExpiredSignatureError is a JWTError
verify_token_AnyType(t, token_type, at) ==
    IF jwt_decode(t, at) # "claims"
    THEN HTTPException(401, "Could not validate credentials")
    ELSE Returned(t.sub)
verify_token(t, token_type, at) ==
    IF jwt_decode(t, at) # "claims"
    THEN HTTPException(401, "Could not validate credentials")
    ELSE IF t.type # token_type
    THEN HTTPException(401, "Invalid token type. Expected " \o token_type)
    ELSE Returned(t.sub)

TokenTypes == {"access", "refresh"}
Subjects == {1, 2, 9}
MaxIssued == 2
Deltas == {Null, Some(0 - 1), Some(0), Some(1)}

\* One entry of the history of handed-out tokens
Handed(t, subject, type, delta) ==
    [token |-> t, subject |-> subject, type |-> type, delta |-> delta,
     at |-> now, before_logout |-> FALSE]

\* create_access_token / create_refresh_token called with a subject and an
\* optional expires_delta (seconds)
IssueToken(subject, type, delta) ==
    LET t == IF type = "access"
             THEN create_access_token(subject, delta, now)
             ELSE create_refresh_token(subject, delta, now)
    IN
    /\ Cardinality(issued) < MaxIssued
    /\ issued' = issued \cup {Handed(t, subject, type, delta)}
    /\ res' = [op |-> "issue", token |-> t]
    /\ UNCHANGED <<repos, nextRepoId, users, accounts, sessions, now, syncing>>

\* Tokens a caller can present: the issued ones, the same with a signature
\* that does not verify, and a string that is no token at all.
Presentable ==
    {i.token : i \in issued} \cup {Forged(i.token) : i \in issued} \cup {Malformed}

VerifyToken(t, token_type) ==
    /\ res' = [op |-> "verify", token |-> t, token_type |-> token_type,
               at |-> now, out |-> verify_token(t, token_type, now)]
    /\ UNCHANGED <<repos, nextRepoId, users, accounts, sessions, issued, now, syncing>>

Issue == \E subject \in Subjects, type \in TokenTypes, delta \in Deltas :
             IssueToken(subject, type, delta)
Verify == \E t \in Presentable, token_type \in TokenTypes : VerifyToken(t, token_type)

TokenNext == Issue \/ Verify \/ Tick

TokenSpec == Init /\ [][TokenNext]_vars

(***************************************************************************)
(* Claims on the token codec                                               *)
(***************************************************************************)
TypeMismatch(token_type) ==
    HTTPException(401, "Invalid token type. Expected " \o token_type)

\* The issue calls with a positive ttl that produced the verified token
IssuedPositive ==
    {i \in issued : i.token = res.token /\ i.delta # Null /\ i.delta[1] > 0}

\* C5: a token issued for a subject with a positive ttl, verified before its
\* expiry with the type it was issued as, returns the subject (in the string
\* form the token carries, which int() reads back as the subject); verified
\* with the other type it fails with the type-mismatch error.  This holds for
\* access and for refresh tokens alike.
C5_IssueVerifyRoundTrip ==
    (res.op = "verify" /\ res.at <= res.token.exp)
    => \A i \in IssuedPositive :
          /\ res.token_type = i.type
               => /\ res.out = Returned(py_str(i.subject))
                  /\ py_int(res.out.sub) = Some(i.subject)
          /\ res.token_type # i.type
               => res.out = TypeMismatch(res.token_type)

\* C5 witness: an access token with a positive ttl was verified as access at
\* the instant of its issue and returned its subject.
C5_Witness ==
    /\ res.op = "verify"
    /\ res.token_type = "access"
    /\ \E i \in IssuedPositive : i.type = "access" /\ i.at = res.at
    /\ ~res.out.raised

\* The issue calls with a negative ttl that produced the verified token
IssuedNegative ==
    {i \in issued : i.token = res.token /\ i.delta # Null /\ i.delta[1] < 0}

Ann == [id |-> 1, email |-> "ann@x.io", username |-> Some("ann"),
        name |-> "Ann", hashed_password |-> Some("pw-ann")]
Bob == [id |-> 2, email |-> "bob@x.io", username |-> Some("bob"),
        name |-> "Bob", hashed_password |-> Some("pw-bob")]
SeedUsers == {Ann, Bob}

SeedAccounts ==
    {[id |-> 1, user_id |-> 1, provider |-> "github", provider_account_id |-> "gh-ann"]}

SeedSessions ==
    {[id |-> 1, user_id |-> 1, session_token |-> "fp-1", ip_address |-> "10.0.0.1",
      user_agent |-> "firefox"],
     [id |-> 2, user_id |-> 1, session_token |-> "fp-2", ip_address |-> "10.0.0.2",
      user_agent |-> "curl"],
     [id |-> 3, user_id |-> 2, session_token |-> "fp-3", ip_address |-> "10.0.0.1",
      user_agent |-> "firefox"]}

AuthInit ==
    /\ repos = {}
    /\ nextRepoId = 1
    /\ users = SeedUsers
    /\ accounts \in SUBSET SeedAccounts
    /\ sessions = SeedSessions
    /\ issued = {}
    /\ now = 0
    /\ syncing = NoSyncing
    /\ res = [op |-> "init"]

(***************************************************************************)
(* AuthService (services/auth.py)                                          *)
(***************************************************************************)
\* What the users table refuses at commit: a primary key that is not an
\* integer, NULL in username (nullable=False, no default), a taken email.
UsersInsertError(us, row) ==
    \/ row.id_type # "int"
    \/ row.username = Null
    \/ \E u \in us : u.email = row.email

\* What the auth_accounts table refuses at commit: a primary key that is not
\* an integer, a user_id that is not an integer key of users, a taken
\* (provider, provider_account_id).
AccountsInsertError(as, row) ==
    \/ row.id_type # "int"
    \/ row.user_id_type # "int"
    \/ \E a \in as : a.provider = row.provider
                     /\ a.provider_account_id = row.provider_account_id

\* OAuthUserInfo values handed to create_or_update_oauth_user
Providers == {"github", "google"}
Profiles ==
    [provider_user_id : {"gh-ann", "id-77"},
     email : {"ann@x.io", "new@x.io"},
     name : {"Anna"}]

\* create_or_update_oauth_user, lines 366-392: the two SELECTs decide the
\* branch and the user
OAuthUserResolve(us, as, provider, info) ==
    LET known == {a \in as : a.provider = provider
                     /\ a.provider_account_id = info.provider_user_id}
        byEmail == {u \in us : u.email = info.email}
    IN IF known # {}
       THEN [path |-> "known", user |-> (CHOOSE a \in known : TRUE).user_id]
       ELSE IF byEmail # {}
       THEN [path |-> "email", user |-> (CHOOSE u \in byEmail : TRUE).id]
       ELSE [path |-> "new", user |-> 0]

\* create_or_update_oauth_user, lines 374-430: the objects built on the
\* branch taken and the commit on the tables us and as; the tables after
\* it, whether it raised, the id of the user it answers and the branch.
OAuthUserCommit(us, as, provider, info, resolved) ==
    LET \* User(id=str(uuid.uuid4()), email=..., name=..., ...): no username
        newUser == [id_type |-> "str", email |-> info.email, username |-> Null,
                    name |-> info.name]
        \* AuthAccount(id=str(uuid.uuid4()), user_id=user.id, ...)
        linkAccount == [id_type |-> "str", user_id_type |-> "int",
                        provider |-> provider,
                        provider_account_id |-> info.provider_user_id]
        \* AuthAccount(id=str(uuid.uuid4()), user_id=user_id, ...), user_id a uuid
        newAccount == [id_type |-> "str", user_id_type |-> "str",
                       provider |-> provider,
                       provider_account_id |-> info.provider_user_id]
        out(u, a, raised, user) ==
            [users |-> u, accounts |-> a, raised |-> raised, user |-> user,
             path |-> resolved.path]
    IN
    IF resolved.path = "known"
    THEN LET user == CHOOSE u \in us : u.id = resolved.user
             upd == [user EXCEPT !.name = info.name]
         IN out((us \ {user}) \cup {upd}, as, FALSE, user.id)
    ELSE IF resolved.path = "email"
    THEN IF AccountsInsertError(as, linkAccount)
         THEN out(us, as, TRUE, 0)
         ELSE out(us,
                  as \cup {[id |-> Cardinality(as) + 1, user_id |-> resolved.user,
                            provider |-> provider,
                            provider_account_id |-> info.provider_user_id]},
                  FALSE, resolved.user)
    ELSE IF UsersInsertError(us, newUser) \/ AccountsInsertError(as, newAccount)
    THEN out(us, as, TRUE, 0)
    ELSE LET uid == Cardinality(us) + 1
         IN out(us \cup {[id |-> uid, email |-> info.email, username |-> Null,
                          name |-> info.name, hashed_password |-> Null]},
                as \cup {[id |-> Cardinality(as) + 1, user_id |-> uid,
                          provider |-> provider,
                          provider_account_id |-> info.provider_user_id]},
                FALSE, uid)

\* create_or_update_oauth_user(provider, user_info) run without interruption
OAuthUserRun(us, as, provider, info) ==
    OAuthUserCommit(us, as, provider, info,
                    OAuthUserResolve(us, as, provider, info))

\* create_or_update_oauth_user(provider, user_info) called on its own
create_or_update_oauth_user(provider, info) ==
    LET run == OAuthUserRun(users, accounts, provider, info)
    IN
    /\ users' = run.users
    /\ accounts' = run.accounts
    /\ res' = [op |-> "oauth_user", provider |-> provider, info |-> info,
               raised |-> run.raised, user |-> run.user, path |-> run.path]
    /\ UNCHANGED <<repos, nextRepoId, sessions, issued, now, syncing>>

\* get_user_by_id(user_id): int(user_id), None on ValueError or no row
get_user_by_id(us, user_id) ==
    LET n == py_int(user_id)
    IN IF n = Null \/ ~\E u \in us : u.id = n[1] THEN Null ELSE Some(n[1])

get_user_by_email(us, email) == {u \in us : u.email = email}

\* invalidate_user_sessions(user_id): DELETE ... WHERE user_id = :user_id
invalidate_user_sessions_One(ss, user_id) ==
    LET mine == {x \in ss : x.user_id = user_id}
    IN IF mine = {} THEN ss ELSE ss \ {CHOOSE x \in mine : TRUE}
invalidate_user_sessions(ss, user_id) ==
    {x \in ss : x.user_id # user_id}

\* get_current_user_optional(authorization): the id of the user, or None;
\* every exception of verify_token is caught and turned into None.
get_current_user_optional_AsRefresh(authorization, us, at) ==
    IF authorization = Null THEN Null
    ELSE LET v == verify_token(authorization[1], "refresh", at)
         IN IF v.raised THEN Null ELSE get_user_by_id(us, v.sub)
get_current_user_optional(authorization, us, at) ==
    IF authorization = Null THEN Null
    ELSE LET v == verify_token(authorization[1], "access", at)
         IN IF v.raised THEN Null ELSE get_user_by_id(us, v.sub)

\* get_current_user(authorization): the user, or 401
get_current_user(authorization, us, at) ==
    LET user == get_current_user_optional(authorization, us, at)
    IN IF user = Null
       THEN HTTPException(401, "Authorization token required")
       ELSE Returned(py_str(user[1]))

(***************************************************************************)
(* The authentication endpoints (api/endpoints/auth.py)                    *)
(***************************************************************************)
\* GET /me, and an endpoint that depends on get_current_user_optional
get_current_user_info(authorization) ==
    /\ res' = [op |-> "me", auth |-> authorization, at |-> now,
               optional |-> get_current_user_optional(authorization, users, now),
               required |-> get_current_user(authorization, users, now)]
    /\ UNCHANGED <<repos, nextRepoId, users, accounts, sessions, issued, now, syncing>>

\* POST /refresh
refresh_access_token_Rotating(t) ==
    LET v == verify_token(t, "refresh", now)
        user == IF v.raised THEN Null ELSE get_user_by_id(users, v.sub)
        access_token == create_access_token(user[1], Null, now)
        rotated == create_refresh_token(user[1], Null, now)
        call == [op |-> "refresh", token |-> t, at |-> now]
    IN
    /\ IF user = Null
       THEN /\ res' = call @@ [status |-> 401, access_token |-> Null,
                               refresh_token |-> Null, user |-> 0]
            /\ UNCHANGED issued
       ELSE /\ issued' = issued \cup {Handed(access_token, user[1], "access", Null)}
            /\ Cardinality(issued') <= MaxIssued
            /\ res' = call @@ [status |-> 200, access_token |-> Some(access_token),
                               refresh_token |-> Some(rotated), user |-> user[1]]
    /\ UNCHANGED <<repos, nextRepoId, users, accounts, sessions, now, syncing>>
refresh_access_token(t) ==
    LET v == verify_token(t, "refresh", now)
        user == IF v.raised THEN Null ELSE get_user_by_id(users, v.sub)
        access_token == create_access_token(user[1], Null, now)
        call == [op |-> "refresh", token |-> t, at |-> now]
    IN
    /\ IF user = Null
       THEN /\ res' = call @@ [status |-> 401, access_token |-> Null,
                               refresh_token |-> Null, user |-> 0]
            /\ UNCHANGED issued
       ELSE /\ issued' = issued \cup {Handed(access_token, user[1], "access", Null)}
            /\ Cardinality(issued') <= MaxIssued
            /\ res' = call @@ [status |-> 200, access_token |-> Some(access_token),
                               refresh_token |-> Some(t), user |-> user[1]]
    /\ UNCHANGED <<repos, nextRepoId, users, accounts, sessions, now, syncing>>

\* POST /logout
logout(authorization) ==
    LET current_user == get_current_user(authorization, users, now)
        uid == py_int(current_user.sub)[1]
        call == [op |-> "logout", auth |-> authorization]
    IN
    /\ IF current_user.raised
       THEN /\ res' = call @@ [status |-> 401, user |-> 0]
            /\ UNCHANGED <<sessions, issued>>
       ELSE /\ sessions' = invalidate_user_sessions(sessions, uid)
            /\ issued' = {IF i.subject = uid THEN [i EXCEPT !.before_logout = TRUE]
                          ELSE i : i \in issued}
            /\ res' = call @@ [status |-> 200, user |-> uid]
    /\ UNCHANGED <<repos, nextRepoId, users, accounts, now, syncing>>

\* POST /test-login (ENVIRONMENT is not "production")
test_login(email, password) ==
    LET call == [op |-> "test_login", email |-> email]
        found == get_user_by_email(users, email)
        user == CHOOSE u \in found : TRUE
        \* create_test_user: User(id=str(uuid.uuid4()), email=..., ...): no username
        testUser == [id_type |-> "str", email |-> email, username |-> Null,
                     name |-> email]
        access_token == create_access_token(user.id, Null, now)
        refresh_token == create_refresh_token(user.id, Null, now)
    IN
    /\ IF found = {}
       THEN IF UsersInsertError(users, testUser)
            THEN /\ res' = call @@ [status |-> 500, access_token |-> Null]
                 /\ UNCHANGED <<users, issued>>
            ELSE /\ users' = users \cup
                      {[id |-> Cardinality(users) + 1, email |-> email,
                        username |-> Null, name |-> email,
                        hashed_password |-> Some(password)]}
                 /\ res' = call @@ [status |-> 200, access_token |-> Null]
                 /\ UNCHANGED issued
       ELSE IF user.hashed_password # Some(password)
       THEN /\ res' = call @@ [status |-> 401, access_token |-> Null]
            /\ UNCHANGED <<users, issued>>
       ELSE /\ issued' = issued \cup {Handed(access_token, user.id, "access", Null),
                                      Handed(refresh_token, user.id, "refresh", Null)}
            /\ Cardinality(issued') <= MaxIssued
            /\ res' = call @@ [status |-> 200, access_token |-> Some(access_token)]
            /\ UNCHANGED users
    /\ UNCHANGED <<repos, nextRepoId, accounts, sessions, now, syncing>>

Authorizations == {Null} \cup {Some(t) : t \in Presentable}

OAuthUser == \E provider \in Providers, info \in Profiles :
                 create_or_update_oauth_user(provider, info)
TestLogin == \E email \in {"ann@x.io", "new@x.io"}, password \in {"pw-ann", "guess"} :
                 test_login(email, password)
Me == \E authorization \in Authorizations : get_current_user_info(authorization)
Refresh == \E t \in Presentable : refresh_access_token(t)
Logout == \E authorization \in Authorizations : logout(authorization)
\* Direct uses of the codec: an expired access token, refresh tokens, an
\* access token of a subject that has no row
AuthIssueCalls ==
    {<<1, "access", Some(0 - 1)>>, <<1, "refresh", Null>>,
     <<1, "refresh", Some(0 - 1)>>, <<9, "access", Null>>, <<9, "refresh", Null>>}
AuthIssue == \E c \in AuthIssueCalls : IssueToken(c[1], c[2], c[3])

AuthNext == OAuthUser \/ TestLogin \/ Me \/ Refresh \/ Logout \/ AuthIssue \/ Tick

AuthSpec == AuthInit /\ [][AuthNext]_vars

(***************************************************************************)
(* Claims on the authentication service                                    *)
(***************************************************************************)
AccountsUnique ==
    \A a1, a2 \in accounts :
        (a1.provider = a2.provider
         /\ a1.provider_account_id = a2.provider_account_id) => a1 = a2

PairKnown(as, provider, info) ==
    \E a \in as : a.provider = provider
                  /\ a.provider_account_id = info.provider_user_id

EmailKnown(us, info) == \E u \in us : u.email = info.email

NewIdentityStep ==
    (/\ res'.op = "oauth_user"
     /\ ~PairKnown(accounts, res'.provider, res'.info)
     /\ ~EmailKnown(users, res'.info))
    => /\ ~res'.raised
       /\ Cardinality(users') = Cardinality(users) + 1
       /\ Cardinality(accounts') = Cardinality(accounts) + 1
       /\ PairKnown(accounts', res'.provider, res'.info)

KnownIdentityStep ==
    (res'.op = "oauth_user" /\ PairKnown(accounts, res'.provider, res'.info))
    => /\ ~res'.raised
       /\ \E a \in accounts : /\ a.provider = res'.provider
                              /\ a.provider_account_id = res'.info.provider_user_id
                              /\ a.user_id = res'.user
       /\ {u.id : u \in users'} = {u.id : u \in users}
       /\ accounts' = accounts

\* C3: resolving a (provider, providerUserId) never seen before, with an
\* email no user has, stores exactly one new user and one new account;
\* resolving a known pair returns the same user id and stores no further
\* user or account; no two accounts share (provider, provider_account_id).
C3_NewIdentityCreatesOneUser ==
    []AccountsUnique /\ [][NewIdentityStep /\ KnownIdentityStep]_vars

EmailsUnique ==
    \A u1, u2 \in users : u1.email = u2.email => u1 = u2

AccountLinkingStep ==
    (/\ res'.op = "oauth_user"
     /\ ~PairKnown(accounts, res'.provider, res'.info)
     /\ EmailKnown(users, res'.info))
    => /\ ~res'.raised
       /\ \E u \in users : u.email = res'.info.email /\ u.id = res'.user
       /\ Cardinality(accounts') = Cardinality(accounts) + 1
       /\ \E a \in accounts' \ accounts :
              /\ a.user_id = res'.user
              /\ a.provider = res'.provider
              /\ a.provider_account_id = res'.info.provider_user_id
       /\ users' = users

\* C4: resolving an unknown (provider, providerUserId) whose email is the
\* email of an existing user attaches exactly one new account to that user,
\* stores no new user and returns that user; emails stay unique.
C4_AccountLinkedToEmailOwner ==
    []EmailsUnique /\ [][AccountLinkingStep]_vars

\* The token of a request is accepted: well signed, not expired, of type
\* access, and its subject is the id of a stored user.
Accepted(authorization, at) ==
    /\ authorization # Null
    /\ authorization[1].sig = "good"
    /\ authorization[1].exp >= at
    /\ authorization[1].type = "access"
    /\ \E u \in users : py_str(u.id) = authorization[1].sub

CurrentUserAnswer ==
    res.op = "me" =>
       /\ ~Accepted(res.auth, res.at)
            => /\ res.optional = Null
               /\ res.required = HTTPException(401, "Authorization token required")
       /\ Accepted(res.auth, res.at)
            => /\ res.optional # Null
               /\ py_str(res.optional[1]) = res.auth[1].sub
               /\ res.required = Returned(py_str(res.optional[1]))
       /\ res.required.raised <=> res.optional = Null

CurrentUserReadsOnly ==
    res'.op = "me" => UNCHANGED <<repos, users, accounts, sessions, issued>>

\* C7: get_current_user_optional answers None, and changes nothing, for an
\* absent, malformed, badly signed, expired or refresh-type token and for a
\* token whose subject is no user; get_current_user raises 401 exactly when
\* the optional lookup answers None and otherwise returns the same user.
C7_OptionalCurrentUser ==
    []CurrentUserAnswer /\ [][CurrentUserReadsOnly]_vars

\* C7 witness: an expired access token of an existing user was presented and
\* the optional lookup answered None.
C7_Witness ==
    /\ res.op = "me"
    /\ res.auth # Null
    /\ res.auth[1].sig = "good"
    /\ res.auth[1].type = "access"
    /\ res.auth[1].exp < res.at
    /\ \E u \in users : py_str(u.id) = res.auth[1].sub
    /\ res.optional = Null

\* The presented refresh token is good: well signed, not expired, of type
\* refresh, and its subject is the id of a stored user.
GoodRefresh(t, at) ==
    /\ t.sig = "good"
    /\ t.exp >= at
    /\ t.type = "refresh"
    /\ \E u \in users : py_str(u.id) = t.sub

RefreshAnswer ==
    res.op = "refresh" =>
       /\ GoodRefresh(res.token, res.at)
            => /\ res.status = 200
               /\ res.refresh_token = Some(res.token)
               /\ res.access_token # Null
               /\ res.access_token[1].type = "access"
               /\ res.access_token[1].sub = res.token.sub
               /\ verify_token(res.access_token[1], "access", res.at)
                      = Returned(res.token.sub)
               /\ py_str(res.user) = res.token.sub
       /\ ~GoodRefresh(res.token, res.at)
            => /\ res.status = 401
               /\ res.access_token = Null
               /\ res.refresh_token = Null

RefreshFailureIssuesNothing ==
    (res'.op = "refresh" /\ res'.status # 200) => issued' = issued

\* C8: refresh with an unexpired refresh token of an existing user answers an
\* access token for that user together with the very refresh token that was
\* presented, every time; with an access token, an invalid or expired token,
\* or a subject that is no user it answers 401 and issues nothing.
C8_RefreshKeepsRefreshToken ==
    []RefreshAnswer /\ [][RefreshFailureIssuesNothing]_vars

\* C8 witness: a refresh token issued at an earlier instant was presented,
\* and the refresh answered 200 with a new access token and that same token.
C8_Witness ==
    /\ res.op = "refresh"
    /\ res.status = 200
    /\ res.refresh_token = Some(res.token)
    /\ \E i \in issued : i.token = res.token /\ i.at < res.at
    /\ \E i \in issued : Some(i.token) = res.access_token /\ i.at = res.at

\* C9: after a successful logout of a user, an access token handed to that
\* user before the logout is no longer accepted: the optional lookup answers
\* None and the protected endpoint answers 401.
C9_TokenRejectedAfterLogout ==
    (/\ res.op = "me"
     /\ res.auth # Null
     /\ \E i \in issued : i.token = res.auth[1] /\ i.type = "access"
     /\ \A i \in issued : i.token = res.auth[1] => i.before_logout)
    => /\ res.optional = Null
       /\ res.required.status = 401

LogoutStep ==
    (res'.op = "logout" /\ res'.status = 200)
    => /\ sessions' = {x \in sessions : x.user_id # res'.user}
       /\ users' = users
       /\ accounts' = accounts

\* C10: a successful logout removes every session of that user, whatever
\* client created it, and leaves the sessions of every other user and all
\* users and accounts unchanged.
C10_LogoutRemovesAllSessions == [][LogoutStep]_vars

\* C10 witness: a user who had sessions from two clients logged out; none of
\* them is left and another user's session is.
C10_Witness ==
    /\ res.op = "logout"
    /\ res.status = 200
    /\ \E x, y \in SeedSessions : x # y /\ x.user_id = res.user /\ y.user_id = res.user
    /\ ~\E x \in sessions : x.user_id = res.user
    /\ sessions # {}

RefreshIssuesNewToken ==
    (res'.op = "refresh" /\ res'.status = 200)
    => \A i \in issued :
          (i.type = "access" /\ i.subject = res'.user)
              => Some(i.token) # res'.access_token

\* C11: the access token answered by a successful refresh differs from every
\* access token handed to the same user before it (at login or by an earlier
\* refresh), however short the time between the two issuances.
C11_RefreshTokenIsNew == [][RefreshIssuesNewToken]_vars


(***************************************************************************)
(* Repository synchronisation (services/github.py)                         *)
(***************************************************************************)
MaxSyncTime == 2

\* The JSON object of GET /repos/{owner}/{repo}: each key is absent or null
\* (Null) or carries a value.
DataFull ==
    [stargazers_count |-> Some(50), forks_count |-> Some(10),
     watchers_count |-> Some(75), language |-> Some("Python"),
     license |-> Some([name |-> "MIT"]), private |-> Some(TRUE),
     fork |-> Some(TRUE)]
DataBare ==
    [stargazers_count |-> Null, forks_count |-> Null, watchers_count |-> Null,
     language |-> Null, license |-> Null, private |-> Null, fork |-> Null]

\* A JSON object whose license is a string, not an object; a value that is
\* no object is written as the record of its text.
DataTextLicense ==
    [stargazers_count |-> Some(7), forks_count |-> Some(3),
     watchers_count |-> Some(9), language |-> Some("Go"),
     license |-> Some([text |-> "MIT"]), private |-> Some(FALSE),
     fork |-> Some(FALSE)]
IsObject(value) == "text" \notin DOMAIN value

\* What the remote does with the request: a response with a status code, the
\* rate-limit signature of the provider (X-RateLimit-Remaining: 0 and its
\* message) and a JSON body, or no response at all (httpx.RequestError).
Response(status, rate_limit, body) ==
    [sent |-> TRUE, status |-> status, rate_limit |-> rate_limit, body |-> body]
NoResponse == [sent |-> FALSE, status |-> 0, rate_limit |-> FALSE, body |-> Null]

RemoteAnswers ==
    {Response(200, FALSE, Some(DataFull)), Response(200, FALSE, Some(DataBare)),
     Response(200, FALSE, Null),          \* a body that is no JSON
     Response(404, FALSE, Null),
     Response(403, TRUE, Null),           \* primary rate limit
     Response(403, FALSE, Null),          \* forbidden: access blocked
     Response(429, TRUE, Null),           \* secondary rate limit
     Response(500, FALSE, Null),
     NoResponse}

\* Messages are sequences of words; "x in str(e)" is a search for the words
\* of x in that order.
Contains(msg, words) ==
    \E i \in 1..(Len(msg) - Len(words) + 1) :
        SubSeq(msg, i, i + Len(words) - 1) = words

StatusWord(status) ==
    CASE status = 429 -> "429"
      [] status = 500 -> "500"
      [] OTHER -> "status"

Fetched(data) == [raised |-> FALSE, data |-> Some(data), message |-> <<>>]
Raise(message) == [raised |-> TRUE, data |-> Null, message |-> message]

\* _fetch_github_data(repository_name) against an answer of the remote;
\* response.json() on a body that is no JSON raises a ValueError that is not
\* caught here.
_fetch_github_data(answer) ==
    IF ~answer.sent
    THEN Raise(<<"Failed", "to", "connect", "to", "GitHub", "API:", "timed", "out">>)
    ELSE IF answer.status = 200
    THEN IF answer.body = Null
         THEN Raise(<<"Expecting", "value:", "line", "1">>)
         ELSE Fetched(answer.body[1])
    ELSE IF answer.status = 404
    THEN Raise(<<"Repository", "repository_name", "not", "found">>)
    ELSE IF answer.status = 403
    THEN Raise(<<"GitHub", "API", "rate", "limit", "exceeded">>)
    ELSE Raise(<<"GitHub", "API", "error:", StatusWord(answer.status)>>)

\* dict.get(key, default): the default stands in for an absent key
Get(value, default) == IF value = Null THEN default ELSE value[1]

\* sync_repository, lines 140-149: the loaded object after the assignments
\* of the success path.
SyncSuccessObject_KeepError(repository, github_data, at) ==
    [repository EXCEPT
        !.stars = Get(github_data.stargazers_count, 0),
        !.forks = Get(github_data.forks_count, 0),
        !.watchers = Get(github_data.watchers_count, 0),
        !.language = github_data.language,
        !.license = IF github_data.license # Null
                    THEN Some(github_data.license[1].name) ELSE Null,
        !.is_private = Get(github_data.private, FALSE),
        !.is_fork = Get(github_data.fork, FALSE),
        !.last_synced_at = Some(at),
        !.updated_at = at]
SyncSuccessObject(repository, github_data, at) ==
    [repository EXCEPT
        !.stars = Get(github_data.stargazers_count, 0),
        !.forks = Get(github_data.forks_count, 0),
        !.watchers = Get(github_data.watchers_count, 0),
        !.language = github_data.language,
        !.license = IF github_data.license # Null
                    THEN Some(github_data.license[1].name) ELSE Null,
        !.is_private = Get(github_data.private, FALSE),
        !.is_fork = Get(github_data.fork, FALSE),
        !.last_synced_at = Some(at),
        !.sync_error_message = Null,
        !.updated_at = at]

\* sync_repository, lines 157-159: the loaded object after the assignments
\* of the except branch.
SyncFailureObject_NoStamp(repository, message, at) ==
    [repository EXCEPT !.sync_error_message = Some(message)]
SyncFailureObject(repository, message, at) ==
    [repository EXCEPT
        !.sync_error_message = Some(message),
        !.last_synced_at = Some(at),
        !.updated_at = at]

\* What sync_repository raises from its except branch, lines 162-165
SyncRaises(message) ==
    IF Contains(message, <<"API", "rate", "limit">>)
    THEN <<"GitHub", "API", "rate", "limit", "exceeded">>
    ELSE <<"Failed", "to", "sync", "GitHub", "repository:">> \o message

\* sync_repository, lines 140-144: the assignments run in order on the
\* loaded object; github_data.get("license", {}).get("name") raises
\* AttributeError when the license is no object, after stars, forks,
\* watchers and language have been assigned.
LicenseRaises(github_data) ==
    github_data.license # Null /\ ~IsObject(github_data.license[1])
SyncPartialObject(repository, github_data) ==
    [repository EXCEPT
        !.stars = Get(github_data.stargazers_count, 0),
        !.forks = Get(github_data.forks_count, 0),
        !.watchers = Get(github_data.watchers_count, 0),
        !.language = github_data.language]

\* sync_repository once the row is loaded: the object it commits and what it
\* answers.  The except branch works on the object as the try block left it.
SyncOutcome(repository, answer, at) ==
    LET fetched == _fetch_github_data(answer)
        noGet == <<"str", "object", "has", "no", "attribute", "get">>
    IN IF fetched.raised
       THEN [obj |-> SyncFailureObject(repository, fetched.message, at),
             outcome |-> "ExternalAPIException",
             message |-> Some(SyncRaises(fetched.message))]
       ELSE IF LicenseRaises(fetched.data[1])
       THEN [obj |-> SyncFailureObject(
                        SyncPartialObject(repository, fetched.data[1]), noGet, at),
             outcome |-> "ExternalAPIException",
             message |-> Some(SyncRaises(noGet))]
       ELSE [obj |-> SyncSuccessObject(repository, fetched.data[1], at),
             outcome |-> "synced",
             message |-> Null]

\* db.commit() of a loaded object: the UPDATE carries the columns whose value
\* differs from the value that was loaded; the other columns of the stored
\* row stay as they are.
Flush(stored, loaded, obj) ==
    [c \in DOMAIN stored |-> IF obj[c] = loaded[c] THEN stored[c] ELSE obj[c]]

\* sync_repository(repository_id) run on the table rs with the remote
\* answering answer; the remote call takes time, the row is stamped at at.
SyncRun(rs, id, answer, at) ==
    LET found == get_by_id(rs, id)
        repository == CHOOSE r \in found : TRUE
        out == SyncOutcome(repository, answer, at)
        stored == Flush(repository, repository, out.obj)
    IN IF found = {}
       THEN [repos |-> rs, called |-> FALSE, outcome |-> "NotFoundException",
             message |-> Null, before |-> Null, returned |-> Null]
       ELSE [repos |-> (rs \ {repository}) \cup {stored}, called |-> TRUE,
             outcome |-> out.outcome, message |-> out.message,
             before |-> Some(repository),
             returned |-> IF out.outcome = "synced" THEN Some(stored) ELSE Null]

sync_repository(id, answer) ==
    LET run == SyncRun(repos, id, answer, now + 1)
    IN
    /\ now < MaxSyncTime
    /\ repos' = run.repos
    /\ now' = IF run.called THEN now + 1 ELSE now
    /\ res' = [op |-> "sync", id |-> id, answer |-> answer,
               outcome |-> run.outcome, message |-> run.message,
               before |-> run.before, returned |-> run.returned]
    /\ UNCHANGED <<nextRepoId, users, accounts, sessions, issued, syncing>>


\* One entry of the result list of bulk_sync_repositories
BulkEntry(project_id, success, error, repository_id, last_synced_at) ==
    [project_id |-> project_id, success |-> success, error |-> error,
     repository_id |-> repository_id, last_synced_at |-> last_synced_at]

\* bulk_sync_repositories(project_ids): the loop over the list, answers[i]
\* being what the remote answers if item i gets as far as the remote call.
\* The variant that stops at the first item whose sync raises comes first.
RECURSIVE BulkRun_Abort(_, _, _, _, _)
RECURSIVE BulkRun(_, _, _, _, _)
BulkRun_Abort(rs, at, project_ids, answers, results) ==
    IF project_ids = <<>>
    THEN [repos |-> rs, now |-> at, results |-> results]
    ELSE LET project_id == Head(project_ids)
             found == get_by_project_id(rs, project_id)
             repository == CHOOSE r \in found : TRUE
             run == SyncRun(rs, repository.id, Head(answers), at + 1)
         IN IF found = {}
            THEN BulkRun_Abort(rs, at, Tail(project_ids), Tail(answers),
                     Append(results, BulkEntry(project_id, FALSE,
                         Some(<<"No", "GitHub", "repository", "found">>), Null, Null)))
            ELSE IF repository.sync_enabled # Some(TRUE)
            THEN BulkRun_Abort(rs, at, Tail(project_ids), Tail(answers),
                     Append(results, BulkEntry(project_id, FALSE,
                         Some(<<"Sync", "is", "disabled">>), Null, Null)))
            ELSE IF run.outcome # "synced"
            THEN [repos |-> run.repos, now |-> at + 1, results |-> results]
            ELSE BulkRun_Abort(run.repos, at + 1, Tail(project_ids), Tail(answers),
                     Append(results, BulkEntry(project_id, TRUE, Null,
                         Some(repository.id), Some(at + 1))))
BulkRun(rs, at, project_ids, answers, results) ==
    IF project_ids = <<>>
    THEN [repos |-> rs, now |-> at, results |-> results]
    ELSE LET project_id == Head(project_ids)
             found == get_by_project_id(rs, project_id)
             repository == CHOOSE r \in found : TRUE
             run == SyncRun(rs, repository.id, Head(answers), at + 1)
         IN IF found = {}
            THEN BulkRun(rs, at, Tail(project_ids), Tail(answers),
                     Append(results, BulkEntry(project_id, FALSE,
                         Some(<<"No", "GitHub", "repository", "found">>), Null, Null)))
            ELSE IF repository.sync_enabled # Some(TRUE)
            THEN BulkRun(rs, at, Tail(project_ids), Tail(answers),
                     Append(results, BulkEntry(project_id, FALSE,
                         Some(<<"Sync", "is", "disabled">>), Null, Null)))
            ELSE IF run.outcome # "synced"
            THEN BulkRun(run.repos, at + 1, Tail(project_ids), Tail(answers),
                     Append(results, BulkEntry(project_id, FALSE,
                         run.message, Null, Null)))
            ELSE BulkRun(run.repos, at + 1, Tail(project_ids), Tail(answers),
                     Append(results, BulkEntry(project_id, TRUE, Null,
                         Some(repository.id), Some(at + 1))))

bulk_sync_repositories(project_ids, answers) ==
    LET run == BulkRun(repos, now, project_ids, answers, <<>>)
    IN
    /\ run.now <= MaxSyncTime
    /\ repos' = run.repos
    /\ now' = run.now
    /\ res' = [op |-> "bulk", project_ids |-> project_ids, answers |-> answers,
               raised |-> FALSE, results |-> run.results]
    /\ UNCHANGED <<nextRepoId, users, accounts, sessions, issued, syncing>>

\* The links found at start-up: linked at instant 0, one of them possibly
\* last synced with a failure after a good sync, one possibly with its sync
\* switched off.
LinkA == GithubRepository(1, 1, UrlRepo, Null, TRUE, 0)
LinkB == GithubRepository(2, 2, UrlTool, Null, TRUE, 0)
LinkBOff == GithubRepository(2, 2, UrlTool, Null, FALSE, 0)
LinkAFailed ==
    SyncFailureObject(SyncSuccessObject(LinkA, DataFull, 0),
                      <<"GitHub", "API", "error:", "500">>, 0)
SeedTables ==
    {{LinkA, LinkB}, {LinkAFailed, LinkB}, {LinkA, LinkBOff}, {LinkAFailed}}

SyncInit ==
    /\ repos \in SeedTables
    /\ nextRepoId = 3
    /\ users = {}
    /\ accounts = {}
    /\ sessions = {}
    /\ issued = {}
    /\ now = 0
    /\ syncing = NoSyncing
    /\ res = [op |-> "init"]

\* The id lists handed to bulk_sync_repositories (project 3 has no link) and
\* the answers of the remote during a bulk run
BulkLists == {<<>>, <<1>>, <<1, 2>>, <<2, 1>>, <<3, 1>>, <<2, 2>>}
BulkAnswers ==
    {Response(200, FALSE, Some(DataFull)), Response(200, FALSE, Some(DataBare)),
     Response(404, FALSE, Null), Response(403, TRUE, Null)}

SyncOne == \E id \in 1..3, answer \in RemoteAnswers : sync_repository(id, answer)
SyncBulk == \E project_ids \in BulkLists :
              \E answers \in [1..Len(project_ids) -> BulkAnswers] :
                  bulk_sync_repositories(project_ids, answers)

SyncNext == SyncOne \/ SyncBulk \/ Tick

SyncSpec == SyncInit /\ [][SyncNext]_vars


(***************************************************************************)
(* Claims on the repository synchronisation                                *)
(***************************************************************************)
RowOf(rs, id) == CHOOSE r \in rs : r.id = id

\* last_synced_at of the row after the call is later than before it
SyncedAtAdvanced(before, after) ==
    /\ after.last_synced_at # Null
    /\ before.last_synced_at # Null
           => after.last_synced_at[1] > before.last_synced_at[1]

SyncFailurePersisted ==
    (res'.op = "sync" /\ res'.outcome = "ExternalAPIException")
    => /\ get_by_id(repos, res'.id) # {}
       /\ get_by_id(repos', res'.id) # {}
       /\ RowOf(repos', res'.id).sync_error_message # Null
       /\ SyncedAtAdvanced(RowOf(repos, res'.id), RowOf(repos', res'.id))

SyncAlwaysStamps ==
    (res'.op = "sync" /\ get_by_id(repos, res'.id) # {})
    => /\ res'.outcome \in {"synced", "ExternalAPIException"}
       /\ SyncedAtAdvanced(RowOf(repos, res'.id), RowOf(repos', res'.id))

ErrorKind(message) ==
    IF message = <<"GitHub", "API", "rate", "limit", "exceeded">>
    THEN "RemoteRateLimited"
    ELSE IF Contains(message, <<"not", "found">>)
    THEN "RemoteNotFound"
    ELSE "RemoteTransientFailure"

\* The error kind the answer of the remote calls for
RemoteKind(answer) ==
    IF answer.sent /\ answer.status = 404 THEN "RemoteNotFound"
    ELSE IF answer.sent /\ answer.rate_limit THEN "RemoteRateLimited"
    ELSE "RemoteTransientFailure"

\* C13: a failing sync_repository raises the error kind its remote outcome
\* calls for: not-found for a 404, rate-limited when the remote signals rate
\* limiting, transient otherwise; a not-found is never reported as
\* rate-limited or transient, and a forbidden answer without the rate-limit
\* signature is never reported as rate-limited.
C13_SyncErrorKinds ==
    (res.op = "sync" /\ res.outcome = "ExternalAPIException")
    => ErrorKind(res.message[1]) = RemoteKind(res.answer)

\* The values a 200 answer carries for the cached columns
AnswerMatchesRow(data, row) ==
    /\ row.stars = Get(data.stargazers_count, 0)
    /\ row.forks = Get(data.forks_count, 0)
    /\ row.watchers = Get(data.watchers_count, 0)
    /\ row.language = data.language
    /\ row.license = (IF data.license = Null THEN Null
                      ELSE Some(data.license[1].name))
    /\ row.is_private = Get(data.private, FALSE)
    /\ row.is_fork = Get(data.fork, FALSE)

\* Item i of a bulk run got as far as the remote call
BulkCalled(i) ==
    \E r \in repos : /\ r.project_id = res.project_ids[i]
                     /\ r.sync_enabled = Some(TRUE)

\* C14: bulk_sync_repositories answers one entry per input item, in input
\* order, and does not raise; an item whose remote call answered not-found
\* has success = FALSE and an error, an item whose remote call succeeded has
\* success = TRUE, and the stored stats of its link are the values of that
\* answer (of the last answer, when the list names the link more than once),
\* whichever of the two comes first in the list.
C14_BulkIsolatesFailures ==
    res.op = "bulk" =>
       /\ ~res.raised
       /\ Len(res.results) = Len(res.project_ids)
       /\ \A i \in 1..Len(res.project_ids) :
             /\ res.results[i].project_id = res.project_ids[i]
             /\ (BulkCalled(i) /\ res.answers[i].status = 404)
                   => /\ res.results[i].success = FALSE
                      /\ res.results[i].error # Null
             /\ (BulkCalled(i) /\ res.answers[i].status = 200)
                   => /\ res.results[i].success = TRUE
                      /\ (\A j \in (i + 1)..Len(res.project_ids) :
                              res.project_ids[j] # res.project_ids[i])
                           => \E r \in repos :
                                 /\ r.project_id = res.project_ids[i]
                                 /\ AnswerMatchesRow(res.answers[i].body[1], r)

\* C14 witness: a bulk run over two links whose first item failed with
\* not-found and whose second item succeeded and stored new stats.
C14_Witness ==
    /\ res.op = "bulk"
    /\ Len(res.project_ids) = 2
    /\ res.project_ids[1] # res.project_ids[2]
    /\ BulkCalled(1) /\ BulkCalled(2)
    /\ res.answers[1].status = 404
    /\ res.answers[2] = Response(200, FALSE, Some(DataFull))
    /\ res.results[1].success = FALSE
    /\ res.results[2].success = TRUE
    /\ \E r \in repos : r.project_id = res.project_ids[2] /\ r.stars = 50

\* C16: a successful sync_repository stores the values of the remote answer
\* in every cached column (stars, forks, watchers, language, license,
\* is_private, is_fork), sets sync_error_message to NULL whatever it was,
\* stamps last_synced_at with the instant of the call and returns the row as
\* stored.
C16_SyncSuccessOverwrites ==
    (res.op = "sync" /\ res.outcome = "synced")
    => /\ res.answer.status = 200
       /\ get_by_id(repos, res.id) # {}
       /\ AnswerMatchesRow(res.answer.body[1], RowOf(repos, res.id))
       /\ RowOf(repos, res.id).sync_error_message = Null
       /\ RowOf(repos, res.id).last_synced_at = Some(now)
       /\ res.returned = Some(RowOf(repos, res.id))

\* C16 witness: a link whose previous sync had failed and whose cached stats
\* differ from the remote's was synced successfully.
C16_Witness ==
    /\ res.op = "sync"
    /\ res.outcome = "synced"
    /\ res.before[1].sync_error_message # Null
    /\ res.before[1].stars # RowOf(repos, res.id).stars
    /\ RowOf(repos, res.id).sync_error_message = Null


(***************************************************************************)
(* sync_repository step by step.  Each request has a store session of its  *)
(* own (get_db); a call suspends at its awaits, so the calls of two         *)
(* sessions interleave between the SELECT, the remote call and the commit. *)
(***************************************************************************)
\* get_by_id, lines 131-133: the session loads the row
SyncLoad(s, id) ==
    LET found == get_by_id(repos, id)
    IN
    /\ syncing[s].pc = "idle"
    /\ found # {}
    /\ syncing' = [syncing EXCEPT ![s] =
                      [pc |-> "loaded", id |-> id,
                       loaded |-> CHOOSE r \in found : TRUE]]
    /\ res' = [op |-> "sync_load", session |-> s]
    /\ UNCHANGED <<repos, nextRepoId, users, accounts, sessions, issued, now>>

\* _fetch_github_data, line 137: the remote answers
SyncFetch(s, answer) ==
    /\ syncing[s].pc = "loaded"
    /\ syncing' = [syncing EXCEPT ![s] =
                      [pc |-> "fetched", id |-> syncing[s].id,
                       loaded |-> syncing[s].loaded, answer |-> answer]]
    /\ res' = [op |-> "sync_fetch", session |-> s]
    /\ UNCHANGED <<repos, nextRepoId, users, accounts, sessions, issued, now>>

\* lines 140-151 or 157-160: the assignments on the loaded object and the
\* commit, which writes the changed columns to the stored row
SyncCommit(s) ==
    LET mine == syncing[s]
        out == SyncOutcome(mine.loaded, mine.answer, now)
        stored == RowOf(repos, mine.id)
        order == Cardinality({t \in DbSessions : syncing[t].pc = "done"}) + 1
    IN
    /\ mine.pc = "fetched"
    /\ repos' = (repos \ {stored}) \cup {Flush(stored, mine.loaded, out.obj)}
    /\ syncing' = [syncing EXCEPT ![s] =
                      [pc |-> "done", id |-> mine.id, loaded |-> mine.loaded,
                       answer |-> mine.answer, outcome |-> out.outcome,
                       order |-> order]]
    /\ res' = [op |-> "sync_commit", session |-> s]
    /\ UNCHANGED <<nextRepoId, users, accounts, sessions, issued, now>>

Load == \E s \in DbSessions, id \in 1..2 : SyncLoad(s, id)
Fetch == \E s \in DbSessions, answer \in RemoteAnswers : SyncFetch(s, answer)
Commit == \E s \in DbSessions : SyncCommit(s)

ConcurrentSyncNext == Load \/ Fetch \/ Commit \/ Tick

ConcurrentSyncSpec == SyncInit /\ [][ConcurrentSyncNext]_vars

\* The columns a sync decides: the cached stats and the error message
SyncColumns ==
    {"stars", "forks", "watchers", "language", "license", "is_private",
     "is_fork", "sync_error_message"}
SyncState(row) == [c \in SyncColumns |-> row[c]]

\* The row after sync_repository ran alone on it
SyncedAlone(row, answer) ==
    LET out == SyncOutcome(row, answer, now)
    IN Flush(row, row, out.obj)

\* Both sessions have committed a sync of the same link: first committed
\* before last.
BothCommitted(first, last) ==
    /\ syncing[first].pc = "done"
    /\ syncing[last].pc = "done"
    /\ syncing[first].id = syncing[last].id
    /\ syncing[first].order < syncing[last].order

\* C15: when two sync_repository calls on one link, each in its own store
\* session, have both committed, the stored row is the row that the two
\* calls leave when run one after the other in some order; and when the
\* call that committed last succeeded, the stored error message is NULL and
\* the stored stats are the values of its answer.
C15_ConcurrentSyncsSerialize ==
    \A first, last \in DbSessions :
        BothCommitted(first, last) =>
            LET row0 == syncing[first].loaded
                a1 == syncing[first].answer
                a2 == syncing[last].answer
                row == RowOf(repos, syncing[last].id)
            IN /\ SyncState(row) \in
                      {SyncState(SyncedAlone(SyncedAlone(row0, a1), a2)),
                       SyncState(SyncedAlone(SyncedAlone(row0, a2), a1))}
               /\ syncing[last].outcome = "synced"
                      => /\ row.sync_error_message = Null
                         /\ AnswerMatchesRow(a2.body[1], row)


(***************************************************************************)
(* The identity provider adapters (services/auth.py, lines 32-351)         *)
(***************************************************************************)
\* httpx.Response.json() is an ordinary method that returns the decoded
\* body; the adapters write "await response.json()", and awaiting a dict
\* raises TypeError.
JsonAwaitable == FALSE

\* Answers of a provider.  The token endpoint: a status and, in the JSON
\* body, an access_token or none.
TokenAnswers ==
    {[status |-> 200, access_token |-> Some("tok")],
     [status |-> 200, access_token |-> Null],
     [status |-> 400, access_token |-> Null]}

\* The profile endpoint: a status and, in the JSON body, the account id and
\* the email address, each present or not (the address possibly empty).
UserAnswers ==
    {[status |-> 401, id |-> Null, email |-> Null]}
    \cup [status : {200}, id : {Null, Some("42")},
          email : {Null, Some(""), Some("a@x.io")}]

\* GitHub's /user/emails: a status and the list of addresses
EmailEntry(email, primary, verified) ==
    [email |-> email, primary |-> primary, verified |-> verified]
EmailAnswers ==
    {[status |-> 404, list |-> <<>>],
     [status |-> 200, list |-> <<EmailEntry("p@x.io", TRUE, TRUE)>>],
     [status |-> 200, list |-> <<EmailEntry("u@x.io", FALSE, FALSE),
                                 EmailEntry("v@x.io", FALSE, TRUE)>>],
     [status |-> 200, list |-> <<EmailEntry("", TRUE, FALSE)>>]}

\* Google's userinfo v2, asked when the People API refuses
FallbackAnswers ==
    {[status |-> 401, id |-> Null, email |-> Null],
     [status |-> 200, id |-> Some("42"), email |-> Some("a@x.io")],
     [status |-> 200, id |-> Some("42"), email |-> Null]}

ProviderAnswers ==
    [token : TokenAnswers, user : UserAnswers, emails : EmailAnswers,
     fallback : FallbackAnswers]

\* What an adapter answers: an OAuthUserInfo, an HTTPException of status 400,
\* or another exception that escapes it
UserInfo(provider_user_id, email) ==
    [raised |-> FALSE, error |-> "", detail |-> "",
     provider_user_id |-> provider_user_id, email |-> email]
BadRequest(detail) ==
    [raised |-> TRUE, error |-> "HTTPException", detail |-> detail,
     provider_user_id |-> "", email |-> ""]
Escapes(error) ==
    [raised |-> TRUE, error |-> error, detail |-> "",
     provider_user_id |-> "", email |-> ""]

\* "if not email": None and "" are falsy
Falsy(value) == value = Null \/ value[1] = ""

\* email.split("@")[0] on the addresses in use
LocalPart(email) ==
    CASE email = "a@x.io" -> "a"
      [] email = "p@x.io" -> "p"
      [] email = "u@x.io" -> "u"
      [] email = "v@x.io" -> "v"
      [] OTHER -> ""

\* The loop of _get_github_user_info over emails_data, lines 128-151: the
\* first primary and verified address ends the loop; failing that the last
\* verified address seen, then the first entry, then the public address.
GithubEmail(list, public) ==
    LET both == {i \in 1..Len(list) : list[i].primary /\ list[i].verified}
        stop == IF both = {} THEN Len(list) + 1
                ELSE CHOOSE i \in both : \A j \in both : i <= j
        seen == {i \in 1..Len(list) : i < stop /\ list[i].verified}
        primary_email == IF both = {} THEN Null ELSE Some(list[stop].email)
        verified_email ==
            IF seen = {} THEN Null
            ELSE Some(list[CHOOSE i \in seen : \A j \in seen : j <= i].email)
    IN IF ~Falsy(primary_email) THEN primary_email
       ELSE IF ~Falsy(verified_email) THEN verified_email
       ELSE IF Len(list) > 0 /\ list[1].email # "" THEN Some(list[1].email)
       ELSE public

_get_github_user_info(a) ==
    IF a.token.status # 200
    THEN BadRequest("GitHub OAuth token exchange failed")
    ELSE IF ~JsonAwaitable THEN Escapes("TypeError")
    ELSE IF a.token.access_token = Null
    THEN BadRequest("GitHub OAuth token exchange failed")
    ELSE IF a.user.status # 200
    THEN BadRequest("GitHub user info retrieval failed")
    ELSE LET primary_email ==
                 IF a.emails.status # 200 THEN a.user.email
                 ELSE GithubEmail(a.emails.list, a.user.email)
         IN IF Falsy(primary_email)
            THEN BadRequest("GitHub user email not found or not accessible")
            ELSE IF a.user.id = Null THEN Escapes("KeyError")
            ELSE UserInfo(a.user.id[1], primary_email[1])

_get_google_user_info(a) ==
    IF a.token.status # 200
    THEN BadRequest("Google OAuth token exchange failed")
    ELSE IF ~JsonAwaitable THEN Escapes("TypeError")
    ELSE IF a.token.access_token = Null
    THEN BadRequest("Google OAuth token exchange failed - no access token")
    ELSE IF a.user.status # 200
    THEN \* the userinfo v2 fallback
         IF a.fallback.status # 200
         THEN BadRequest("Google user info retrieval failed")
         ELSE IF a.fallback.id = Null \/ a.fallback.email = Null
         THEN Escapes("KeyError")
         ELSE UserInfo(a.fallback.id[1], a.fallback.email[1])
    ELSE IF Falsy(a.user.email)
    THEN BadRequest("Google user email not found")
    ELSE UserInfo(IF a.user.id # Null THEN a.user.id[1]
                  ELSE LocalPart(a.user.email[1]),
                  a.user.email[1])

_get_kakao_user_info(a) ==
    IF ~JsonAwaitable THEN Escapes("TypeError")
    ELSE IF a.token.access_token = Null
    THEN BadRequest("Kakao OAuth token exchange failed")
    ELSE IF a.user.id = Null THEN Escapes("KeyError")
    ELSE UserInfo(a.user.id[1],
                  IF Falsy(a.user.email)
                  THEN "kakao_" \o a.user.id[1] \o "@kakao.local"
                  ELSE a.user.email[1])

get_oauth_user_info(provider, a) ==
    IF provider = "github" THEN _get_github_user_info(a)
    ELSE IF provider = "google" THEN _get_google_user_info(a)
    ELSE IF provider = "kakao" THEN _get_kakao_user_info(a)
    ELSE BadRequest("Unsupported OAuth provider")

GetOAuthUserInfo(provider, a) ==
    /\ res' = [op |-> "oauth_info", provider |-> provider, answers |-> a,
               out |-> get_oauth_user_info(provider, a)]
    /\ UNCHANGED <<repos, nextRepoId, users, accounts, sessions, issued, now, syncing>>

ProviderVariants == {"github", "google", "kakao"}

ProviderNext ==
    \E provider \in ProviderVariants \cup {"naver"}, a \in ProviderAnswers :
        GetOAuthUserInfo(provider, a)

ProviderSpec == Init /\ [][ProviderNext]_vars

\* C17: for each of the three providers, code exchange followed by profile
\* fetch either returns a profile whose provider_user_id and email are both
\* non-empty, or fails with a classified error (the HTTPException of status
\* 400 that stands for a failed exchange or an incomplete profile); no
\* answer of the provider leads to an empty email, an empty id or another
\* exception.
C17_ProfileOrClassifiedError ==
    (res.op = "oauth_info" /\ res.provider \in ProviderVariants)
    => /\ res.out.raised => res.out.error = "HTTPException"
       /\ ~res.out.raised => /\ res.out.provider_user_id # ""
                             /\ res.out.email # ""


(***************************************************************************)
(* Naming of links: link and update calls with repository URLs of several  *)
(* shapes and no explicit name.                                            *)
(***************************************************************************)
RepoUrls == {UrlRepo, UrlTool, UrlRepoGit, UrlDotted, UrlOwner}

LinkDerived == \E p \in Projects, u \in RepoUrls :
                   create_github_repository(p, u, Null, TRUE)
UpdateUrl == \E id \in 1..MaxRepoId, u \in RepoUrls :
                 update_repository(id, [github_url |-> SetTo(Some(u)),
                                        sync_enabled |-> NotSet])

NamingNext == LinkDerived \/ UpdateUrl \/ Unlink \/ Tick

NamingSpec == Init /\ [][NamingNext]_vars

\* The owner/name of a repository URL https://{host}/{owner}/{name}: the two
\* path segments, the second without a trailing ".git"
StripGit(parts) ==
    IF Len(parts) > 1 /\ parts[Len(parts)] = "git"
    THEN SubSeq(parts, 1, Len(parts) - 1)
    ELSE parts
ExpectedName(u) == <<u.path[1], StripGit(u.path[2])>>

\* C18: a link call with a URL of the shape https://{host}/{owner}/{name}
\* and no explicit name stores the name owner/name, and get_by_project_id
\* returns exactly that row afterwards.
C18_LinkDerivesName ==
    (res.op = "link" /\ res.outcome = "created" /\ res.name = Null)
    => /\ Len(res.url.path) = 2
       /\ \E r \in repos :
             /\ get_by_project_id(repos, res.project_id) = {r}
             /\ r.id = res.id
             /\ r.github_url = Some(res.url)
             /\ r.repository_name = ExpectedName(res.url)

UpdateUrlStep ==
    (/\ res'.op = "update"
     /\ res'.url # Null
     /\ get_by_id(repos, res'.id) # {})
    => /\ res'.outcome = "updated"
           => /\ Len(res'.url[1].path) = 2
              /\ RowOf(repos', res'.id).github_url = res'.url
              /\ RowOf(repos', res'.id).repository_name = ExpectedName(res'.url[1])
              /\ RowOf(repos', res'.id).repository_name # <<>>
       /\ res'.outcome = "DuplicateException"
           <=> UrlConflict(repos, res'.url[1], res'.id)
       /\ RowOf(repos, res'.id).github_url = res'.url
           => res'.outcome # "DuplicateException"

\* C19: an update that sets the url stores it only if it has the shape
\* https://{host}/{owner}/{name}, stores with it the non-empty owner/name
\* derived from it, fails with DuplicateException exactly when a row other
\* than the updated one has that url, and does not fail as a duplicate when
\* the url is the row's own.
C19_UpdateRevalidatesUrl == [][UpdateUrlStep]_vars


(***************************************************************************)
(* The repository endpoints (api/endpoints/github_repository.py)           *)
(***************************************************************************)
\* The projects table; the repository endpoints only read it.  Project 1
\* belongs to user 1, every other project to user 2.
Project(id, owner_id) == [id |-> id, owner_id |-> owner_id]
SeedProjects == {Project(p, IF p = 1 THEN 1 ELSE 2) : p \in Projects}

\* ProjectService.get_project_by_id(project_id)
get_project_by_id(ps, project_id) == {p \in ps : p.id = project_id}

\* What an endpoint leaves behind: the status of the answer, the table, and
\* whether the remote was called
HttpAnswer(status, rs, called) == [status |-> status, repos |-> rs, called |-> called]

\* The start of every project-addressed endpoint: the project row and the
\* owner check; the status it raises, or 0 when the request goes on.
ProjectGate(current_user, project_id) ==
    LET project == get_project_by_id(SeedProjects, project_id)
    IN IF project = {} THEN 404
       ELSE IF (CHOOSE p \in project : TRUE).owner_id # current_user THEN 403
       ELSE 0

HttpMethods == {"GET", "PATCH", "DELETE", "SYNC"}

\* GET, PATCH and DELETE /projects/{project_id}/github and POST
\* /projects/{project_id}/github/sync.  PATCH calls update_repository with
\* the keyword repository_data, which the service does not have: TypeError.
ProjectRoute(method, authorization, project_id, answer, rs, us, at) ==
    LET current_user == get_current_user(authorization, us, at)
        gate == ProjectGate(py_int(current_user.sub)[1], project_id)
        found == get_by_project_id(rs, project_id)
        repository == CHOOSE r \in found : TRUE
        run == SyncRun(rs, repository.id, answer, at + 1)
    IN IF current_user.raised THEN HttpAnswer(401, rs, FALSE)
       ELSE IF gate # 0 THEN HttpAnswer(gate, rs, FALSE)
       ELSE IF found = {} THEN HttpAnswer(404, rs, FALSE)
       ELSE IF method = "GET" THEN HttpAnswer(200, rs, FALSE)
       ELSE IF method = "PATCH" THEN HttpAnswer(500, rs, FALSE)
       ELSE IF method = "DELETE" THEN HttpAnswer(204, rs \ found, FALSE)
       ELSE HttpAnswer(IF run.outcome = "synced" THEN 200 ELSE 502, run.repos, TRUE)

\* GET, PUT and DELETE /{repository_id} and POST /{repository_id}/sync: the
\* first statement calls get_repository_by_id, which the service does not
\* have: AttributeError.
IdRoute(method, authorization, repository_id, rs, us, at) ==
    LET current_user == get_current_user(authorization, us, at)
    IN IF current_user.raised THEN HttpAnswer(401, rs, FALSE)
       ELSE HttpAnswer(500, rs, FALSE)

\* One request to a project-addressed endpoint
project_github_request(method, authorization, project_id, answer) ==
    LET out == ProjectRoute(method, authorization, project_id, answer, repos, users, now)
    IN
    /\ out.called => now < MaxSyncTime
    /\ repos' = out.repos
    /\ now' = IF out.called THEN now + 1 ELSE now
    /\ res' = [op |-> "http", route |-> "project", method |-> method,
               auth |-> authorization, target |-> project_id, status |-> out.status]
    /\ UNCHANGED <<nextRepoId, users, accounts, sessions, issued, syncing>>

\* One request to an id-addressed endpoint
github_repository_request(method, authorization, repository_id) ==
    LET out == IdRoute(method, authorization, repository_id, repos, users, now)
    IN
    /\ repos' = out.repos
    /\ res' = [op |-> "http", route |-> "id", method |-> method,
               auth |-> authorization, target |-> repository_id, status |-> out.status]
    /\ UNCHANGED <<nextRepoId, users, accounts, sessions, issued, now, syncing>>

\* The links and users found at start-up
HttpInit ==
    /\ repos \in SeedTables
    /\ nextRepoId = 3
    /\ users = SeedUsers
    /\ accounts = {}
    /\ sessions = SeedSessions
    /\ issued = {}
    /\ now = 0
    /\ syncing = NoSyncing
    /\ res = [op |-> "init"]

\* What callers send as Authorization: nothing, the access tokens of the two
\* users, a refresh token and an expired access token
HttpAuthorizations ==
    {Null,
     Some(create_access_token(1, Null, 0)),
     Some(create_access_token(2, Null, 0)),
     Some(create_refresh_token(1, Null, 0)),
     Some(create_access_token(1, Some(0 - 1), 0))}

\* What the remote answers to the request of a sync; the other methods do
\* not call it
HttpAnswers(method) ==
    IF method = "SYNC"
    THEN {Response(200, FALSE, Some(DataFull)), Response(404, FALSE, Null)}
    ELSE {NoResponse}

ProjectRequest ==
    \E method \in HttpMethods, authorization \in HttpAuthorizations,
       project_id \in 1..(NumProjects + 1) :
        \E answer \in HttpAnswers(method) :
            project_github_request(method, authorization, project_id, answer)
IdRequest ==
    \E method \in HttpMethods, authorization \in HttpAuthorizations,
       repository_id \in 1..3 :
        github_repository_request(method, authorization, repository_id)

\* POST /webhook: no authentication; the body names the service class
\* GitHubRepositoryService, which the module does not define (it imports
\* GithubRepositoryService): NameError, before any link is looked up.
github_webhook(full_name) ==
    /\ res' = [op |-> "webhook", full_name |-> full_name, status |-> 500]
    /\ UNCHANGED <<repos, nextRepoId, users, accounts, sessions, issued, now, syncing>>

\* repository.full_name of the payloads: the names of the two seeded links
\* and a name no link has
WebhookNames ==
    {_extract_repo_name(UrlRepo), _extract_repo_name(UrlTool),
     << <<"zed">>, <<"none">> >>}

Webhook == \E full_name \in WebhookNames : github_webhook(full_name)

HttpNext == ProjectRequest \/ IdRequest \/ Webhook \/ Tick

HttpSpec == HttpInit /\ [][HttpNext]_vars

\* The user a request speaks for: the subject of a well-signed, unexpired
\* access token when that subject has a row
Caller(authorization, us, at) ==
    IF /\ authorization # Null
       /\ authorization[1].sig = "good"
       /\ authorization[1].exp >= at
       /\ authorization[1].type = "access"
       /\ \E u \in us : py_str(u.id) = authorization[1].sub
    THEN {u.id : u \in {v \in us : py_str(v.id) = authorization[1].sub}}
    ELSE {}

\* The link a request is about, and the users owning its project
TargetLink(r, rs) ==
    IF r.route = "project" THEN get_by_project_id(rs, r.target)
    ELSE get_by_id(rs, r.target)
OwnersOf(links) ==
    {p.owner_id : p \in {q \in SeedProjects : \E l \in links : l.project_id = q.id}}

HttpStep ==
    res'.op = "http"
    => LET caller == Caller(res'.auth, users, now)
           owners == OwnersOf(TargetLink(res', repos))
       IN /\ caller = {} => res'.status = 401 /\ repos' = repos
          /\ (caller # {} /\ owners # {} /\ caller # owners)
                 => res'.status \in {403, 404} /\ repos' = repos
          /\ res'.status \in {200, 204} => caller # {} /\ caller = owners

\* C20: a request that reads, updates, syncs or unlinks a link succeeds only
\* for the owner of the link's project; an authenticated user who is not the
\* owner is answered 403 or 404 and the table stays as it is; a request
\* without a valid access token is answered 401 and the table stays as it is.
C20_OnlyOwnerThroughHttp == [][HttpStep]_vars


(***************************************************************************)
(* POST /login/{provider} (api/endpoints/auth.py, lines 36-123)            *)
(***************************************************************************)
SupportedProviders == {"github", "google", "kakao"}

\* The Authorization header of a login request, split at its blanks: no
\* header, another scheme, Bearer alone, Bearer and an empty code, Bearer
\* and a code
AuthHeaders ==
    {Null, Some(<<"Basic", "abc">>), Some(<<"Bearer">>), Some(<<"Bearer", "">>),
     Some(<<"Bearer", "code">>)}

\* auth_header.startswith("Bearer ")
StartsWithBearer(auth_header) ==
    Len(auth_header[1]) >= 2 /\ auth_header[1][1] = "Bearer"

\* What get_oauth_user_info hands to the endpoint at line 74: an exception,
\* which is what every exchange ends in with the HTTP client as shipped
\* (JsonAwaitable), or an OAuthUserInfo, which is what a double of the
\* method answers (tests/api/test_auth_api.py, line 52).
Exchanges ==
    {[raised |-> TRUE, info |-> Null]}
    \cup {[raised |-> FALSE, info |-> Some(p)] : p \in Profiles}

\* The columns of Session and the keywords create_user_session passes to
\* its constructor
SessionColumns ==
    {"id", "user_id", "session_token", "expires", "ip_address", "user_agent",
     "last_accessed_at", "created_at", "updated_at"}
SessionKeywords ==
    {"id", "user_id", "session_token", "expires_at", "ip_address", "user_agent",
     "created_at"}

\* access_token[:32]: the first 32 characters of a compact JWT lie in its
\* header segment, the same 36 characters for every HS256 token
session_token(access_token) == "eyJhbGciOiJIUzI1NiIsInR5cCI6IkpX"

\* create_user_session(user_id, access_token, ip_address, user_agent) on
\* the table ss: the declarative constructor raises TypeError on a keyword
\* that is no attribute; the commit refuses a primary key that is not an
\* integer and a taken session_token.
create_user_session(ss, user_id, access_token, ip_address, user_agent) ==
    LET row == [id |-> Cardinality(ss) + 1, user_id |-> user_id,
                session_token |-> session_token(access_token),
                ip_address |-> ip_address, user_agent |-> user_agent]
    IN IF ~(SessionKeywords \subseteq SessionColumns)
       THEN [raised |-> TRUE, error |-> "TypeError", sessions |-> ss]
       ELSE IF \E x \in ss : x.session_token = row.session_token
       THEN [raised |-> TRUE, error |-> "IntegrityError", sessions |-> ss]
       ELSE [raised |-> TRUE, error |-> "DBAPIError", sessions |-> ss]

\* oauth_login(provider, request): the whole handler.  called tells whether
\* the identity provider was asked.
oauth_login(provider, auth_header, fetched, ip_address, user_agent) ==
    LET call == [op |-> "login", provider |-> provider, header |-> auth_header,
                 fetched |-> fetched, ip |-> ip_address, agent |-> user_agent]
        answer(status, detail, called) ==
            call @@ [status |-> status, detail |-> detail, called |-> called,
                     user |-> 0, access_token |-> Null]
        run == OAuthUserRun(users, accounts, provider, fetched.info[1])
        access_token == create_access_token(run.user, Null, now)
        made == create_user_session(sessions, run.user, access_token,
                                    ip_address, user_agent)
    IN
    /\ IF provider \notin SupportedProviders
       THEN /\ res' = answer(400, "Unsupported OAuth provider", FALSE)
            /\ UNCHANGED <<users, accounts, sessions>>
       ELSE IF auth_header = Null \/ ~StartsWithBearer(auth_header)
       THEN /\ res' = answer(401, "OAuth authorization code required", FALSE)
            /\ UNCHANGED <<users, accounts, sessions>>
       ELSE IF fetched.raised
       THEN /\ res' = answer(400, "OAuth login failed", TRUE)
            /\ UNCHANGED <<users, accounts, sessions>>
       ELSE IF run.raised
       THEN /\ res' = answer(400, "OAuth login failed", TRUE)
            /\ UNCHANGED <<users, accounts, sessions>>
       ELSE IF made.raised
       THEN \* create_or_update_oauth_user has committed
            /\ users' = run.users
            /\ accounts' = run.accounts
            /\ res' = answer(400, "OAuth login failed", TRUE)
            /\ UNCHANGED sessions
       ELSE /\ users' = run.users
            /\ accounts' = run.accounts
            /\ sessions' = made.sessions
            /\ res' = call @@ [status |-> 200, detail |-> "", called |-> TRUE,
                               user |-> run.user,
                               access_token |-> Some(access_token)]
    /\ UNCHANGED <<repos, nextRepoId, issued, now, syncing>>

LoginProviders == SupportedProviders \cup {"gitlab"}
ClientAddresses == {"10.0.0.1", "10.0.0.9"}

Login ==
    \E provider \in LoginProviders, auth_header \in AuthHeaders,
       fetched \in Exchanges, ip_address \in ClientAddresses :
        oauth_login(provider, auth_header, fetched, ip_address, "firefox")

LoginNext == Login \/ Tick

LoginSpec == AuthInit /\ [][LoginNext]_vars

\* The code a login request carries; "" when there is none
CodeOf(auth_header) ==
    IF auth_header # Null /\ Len(auth_header[1]) >= 2
       /\ auth_header[1][1] = "Bearer"
    THEN auth_header[1][2]
    ELSE ""

LoginRefusedEarly ==
    res'.op = "login"
    => /\ res'.provider \notin SupportedProviders
              => /\ res'.status = 400
                 /\ res'.detail = "Unsupported OAuth provider"
                 /\ ~res'.called
                 /\ UNCHANGED <<users, accounts, sessions>>
       /\ (res'.provider \in SupportedProviders /\ CodeOf(res'.header) = "")
              => /\ res'.status = 401
                 /\ res'.detail = "OAuth authorization code required"
                 /\ ~res'.called
                 /\ UNCHANGED <<users, accounts, sessions>>

\* C21: a login with a provider outside the supported set is refused as
\* unsupported, a login with a supported provider and no code or an empty
\* code is refused for its missing credential; in both cases the identity
\* provider is not asked and users, accounts and sessions stay as they are.
C21_LoginRefusedBeforeProvider == [][LoginRefusedEarly]_vars


(***************************************************************************)
(* Updates and unlinks of links that have been synced                      *)
(***************************************************************************)
FramePatches ==
    [github_url : {NotSet, SetTo(Some(UrlRepoGit)), SetTo(Some(UrlTool))},
     sync_enabled : {NotSet, SetTo(Some(TRUE)), SetTo(Some(FALSE))}]
FrameAnswers ==
    {Response(200, FALSE, Some(DataFull)), Response(200, FALSE, Some(DataBare)),
     Response(200, FALSE, Some(DataTextLicense)), Response(404, FALSE, Null)}

UpdateSynced == \E id \in 1..3, patch \in FramePatches : update_repository(id, patch)
SyncSynced == \E id \in 1..2, answer \in FrameAnswers : sync_repository(id, answer)
UnlinkSynced == \E id \in 1..3 : delete_repository(id)

FrameNext == UpdateSynced \/ SyncSynced \/ UnlinkSynced \/ Tick

FrameSpec == SyncInit /\ [][FrameNext]_vars

\* The cached stats and the sync state of a row
StatState(row) == [c \in SyncColumns \cup {"last_synced_at"} |-> row[c]]

\* A step in which a link that stays has another value in a stat column or
\* in its sync state is a sync
StatsOnlyBySync ==
    (\E r \in repos, q \in repos' : q.id = r.id /\ StatState(q) # StatState(r))
    => res'.op \in {"sync", "bulk"}
UpdateKeepsStats ==
    res'.op = "update"
    => \A r \in repos : \A q \in repos' : q.id = r.id => StatState(q) = StatState(r)

\* C22: stars, forks, watchers, language, license, is_private, is_fork,
\* last_synced_at and sync_error_message of a link change only in a sync;
\* an update, also one that sets the url or sync_enabled, leaves them as
\* they are.
C22_UpdateKeepsStats == [][StatsOnlyBySync /\ UpdateKeepsStats]_vars

\* An update that changed the url of a link with cached stars and a stored
\* sync error
C22_Witness ==
    /\ res.op = "update"
    /\ res.outcome = "updated"
    /\ res.url # Null
    /\ \E r \in repos : /\ r.id = res.id
                        /\ r.github_url = res.url
                        /\ r.stars > 0
                        /\ r.sync_error_message # Null


\* An unlink that found its row removes that row and nothing else, spends no
\* time on a remote call, and leaves no row with the id, the project or the
\* url of the removed one
UnlinkRemovesOne ==
    (res'.op = "unlink" /\ res'.outcome = "deleted")
    => \E gone \in repos :
          /\ gone.id = res'.id
          /\ repos' = repos \ {gone}
          /\ now' = now
          /\ get_by_id(repos', gone.id) = {}
          /\ get_by_project_id(repos', gone.project_id) = {}
          /\ ~UrlConflict(repos', gone.github_url[1], 0)
          /\ ~ProjectConflict(repos', gone.project_id, 0)
\* An unlink that found no row changes nothing
UnlinkMissing ==
    (res'.op = "unlink" /\ res'.outcome # "deleted")
    => get_by_id(repos, res'.id) = {} /\ repos' = repos
\* A link call with a repository url and a project that no row holds succeeds
LinkOfFree ==
    (/\ res'.op = "link"
     /\ validate_github_url(res'.url)
     /\ res'.project_id \in Projects
     /\ ~UrlConflict(repos, res'.url, 0)
     /\ ~ProjectConflict(repos, res'.project_id, 0))
    => /\ res'.outcome = "created"
       /\ \E r \in repos' : /\ r.id = res'.id
                            /\ r.project_id = res'.project_id
                            /\ r.github_url = Some(res'.url)

\* C23: delete_repository(id) removes exactly the row id and calls no
\* remote: afterwards get_by_id(id) and get_by_project_id of its project
\* find nothing, every other row is as it was, and the url and the project
\* of the removed row can be linked again.
C23_UnlinkRemovesOnlyThatLink ==
    [][UnlinkRemovesOne /\ UnlinkMissing /\ LinkOfFree]_vars

\* A link was removed while another one stays
C23_Witness ==
    /\ res.op = "unlink"
    /\ res.outcome = "deleted"
    /\ repos # {}
    /\ get_by_id(repos, res.id) = {}


\* The links a payload is about
Matching(rs, full_name) == {r \in rs : r.repository_name = full_name}

WebhookStep ==
    res'.op = "webhook"
    => IF Matching(repos, res'.full_name) = {}
       THEN repos' = repos
       ELSE /\ res'.status = 200
            /\ \A r \in Matching(repos, res'.full_name) :
                   \E q \in repos' : /\ q.id = r.id
                                     /\ q.last_synced_at = Some(now')
                                     /\ now' > now
            /\ \A r \in repos \ Matching(repos, res'.full_name) : r \in repos'

\* C24: a webhook payload whose repository names an existing link is
\* accepted and that link, and no other, is synced once (the handler has no
\* queue, so the sync is part of the request); a payload that names no link
\* changes no link.
C24_WebhookResyncsLink == [][WebhookStep]_vars


LoginAllOrNothing ==
    res'.op = "login"
    => /\ res'.status # 200 => UNCHANGED <<users, accounts, sessions>>
       /\ res'.status = 200
              => \E x \in sessions' \ sessions :
                    /\ x.user_id = res'.user
                    /\ x.ip_address = res'.ip
                    /\ x.user_agent = res'.agent

FingerprintsDiffer ==
    \A u \in users, v \in users :
        create_access_token(u.id, Null, now) # create_access_token(v.id, Null, now)
        => session_token(create_access_token(u.id, Null, now))
               # session_token(create_access_token(v.id, Null, now))

\* A login whose exchange answered a profile and whose user was resolved
\* answers tokens and adds one session, whatever sessions exist
LoginAddsSession ==
    (/\ res'.op = "login"
     /\ res'.provider \in SupportedProviders
     /\ CodeOf(res'.header) # ""
     /\ ~res'.fetched.raised
     /\ ~OAuthUserRun(users, accounts, res'.provider, res'.fetched.info[1]).raised)
    => /\ res'.status = 200
       /\ sessions \subseteq sessions'
       /\ Cardinality(sessions') = Cardinality(sessions) + 1
       /\ \A x \in sessions', y \in sessions' :
              x.session_token = y.session_token => x = y

\* C26: a login succeeds and adds one session while sessions of the same
\* user and of other users exist; the session_token values stored for
\* different access tokens differ, so the unique constraint on
\* session_token rejects no login.
C26_LoginAddsDistinctSession == [][FingerprintsDiffer /\ LoginAddsSession]_vars


(***************************************************************************)
(* create_or_update_oauth_user step by step: two requests, each in a store *)
(* session of its own, interleave between the SELECTs and the commit.      *)
(***************************************************************************)
\* lines 366-392: the SELECT of the account and of the user by email
LoginResolve(s, provider, info) ==
    /\ syncing[s].pc = "idle"
    /\ syncing' = [syncing EXCEPT ![s] =
                      [pc |-> "resolved", provider |-> provider, info |-> info,
                       resolved |-> OAuthUserResolve(users, accounts, provider, info)]]
    /\ res' = [op |-> "login_resolve", session |-> s]
    /\ UNCHANGED <<repos, nextRepoId, users, accounts, sessions, issued, now>>

\* lines 394-430: the objects are added and the session commits
LoginCommit(s) ==
    LET mine == syncing[s]
        out == OAuthUserCommit(users, accounts, mine.provider, mine.info,
                               mine.resolved)
    IN
    /\ mine.pc = "resolved"
    /\ users' = out.users
    /\ accounts' = out.accounts
    /\ syncing' = [syncing EXCEPT ![s] =
                      [pc |-> "answered", provider |-> mine.provider,
                       info |-> mine.info, resolved |-> mine.resolved,
                       raised |-> out.raised, user |-> out.user]]
    /\ res' = [op |-> "login_commit", session |-> s]
    /\ UNCHANGED <<repos, nextRepoId, sessions, issued, now>>

Resolve == \E s \in DbSessions, provider \in Providers, info \in Profiles :
               LoginResolve(s, provider, info)
CommitLogin == \E s \in DbSessions : LoginCommit(s)

ConcurrentLoginNext == Resolve \/ CommitLogin \/ Tick

ConcurrentLoginSpec == AuthInit /\ [][ConcurrentLoginNext]_vars

\* Both requests have answered, for the same provider and profile, which
\* both found unknown
BothAnsweredNew ==
    /\ \A s \in DbSessions : /\ syncing[s].pc = "answered"
                             /\ syncing[s].resolved.path = "new"
    /\ syncing["manual"].provider = syncing["scheduled"].provider
    /\ syncing["manual"].info = syncing["scheduled"].info

\* C27: when two logins of the same unseen (provider, provider_user_id) and
\* email have run concurrently, there is exactly one user with that email
\* and exactly one account of that pair, owned by that user; each login
\* answered that user or failed.
C27_ConcurrentLoginsOneUser ==
    BothAnsweredNew
    => LET mine == syncing["manual"]
           theUsers == {u \in users : u.email = mine.info.email}
           theAccounts == {a \in accounts :
                              /\ a.provider = mine.provider
                              /\ a.provider_account_id = mine.info.provider_user_id}
       IN /\ Cardinality(theUsers) = 1
          /\ Cardinality(theAccounts) = 1
          /\ \A a \in theAccounts : \E u \in theUsers : a.user_id = u.id
          /\ \A s \in DbSessions :
                 syncing[s].raised \/ \E u \in theUsers : syncing[s].user = u.id


\* The default ttl of a token type, in seconds
DefaultTtl(type) ==
    IF type = "access" THEN ACCESS_TOKEN_EXPIRE_MINUTES * 60
    ELSE REFRESH_TOKEN_EXPIRE_DAYS * 24 * 60 * 60

\* C29: every issued token carries exp = issue time + ttl when a ttl was
\* supplied, 0 included, and issue time + the default ttl of its type only
\* when none was supplied; a token issued with ttl 0 is refused by verify at
\* every later instant.
C29_ExplicitTtlIsEmbedded ==
    /\ \A i \in issued :
          i.token.exp = i.at + (IF i.delta = Null THEN DefaultTtl(i.type)
                                ELSE i.delta[1])
    /\ (res.op = "verify"
        /\ \E i \in issued : /\ i.token = res.token
                             /\ i.delta = Some(0)
                             /\ res.at > i.at)
       => res.out.raised


\* C30: as long as no sync has run, every link has neither a sync timestamp
\* nor an error message: linking does not stamp last_synced_at.  (Checked
\* where only link, update and unlink calls are made.)
C30_UnsyncedLinkHasNoTimestamp ==
    \A r \in repos : r.last_synced_at = Null /\ r.sync_error_message = Null


\* The cached stats of a row
StatColumns ==
    {"stars", "forks", "watchers", "language", "license", "is_private", "is_fork"}

FailedSyncKeepsStats ==
    (res'.op = "sync" /\ res'.outcome = "ExternalAPIException")
    => \E r \in repos, q \in repos' :
          /\ r.id = res'.id
          /\ q.id = res'.id
          /\ \A c \in StatColumns : q[c] = r[c]
          /\ repos' \ {q} = repos \ {r}

\* C28: a sync that fails, in the remote call or while the answer is
\* processed, changes only sync_error_message, last_synced_at and updated_at
\* of its link: stars, forks, watchers, language, license, is_private and
\* is_fork keep the values of the last successful sync.
C28_FailedSyncKeepsStats == [][FailedSyncKeepsStats]_vars


====
